---- MODULE Spec2Model ----
(***************************************************************************)
(* MetroMorph front end: the five-step analysis wizard (NewAnalysis), the  *)
(* Region Selector (MapInterface), the mock analysis run (StepRunAnalysis),*)
(* the Collaborate step (StepCollaborate), the App shell that opens and    *)
(* closes the wizard, and the Project Store it talks to over HTTP.         *)
(*                                                                         *)
(* A value that may be null in the source is a sequence of length 0 or 1:  *)
(* None is null and Some(x) is x.                                          *)
(***************************************************************************)
EXTENDS Integers, Sequences, FiniteSets, TLC

VARIABLES
    \* App
    currentPage, projects, selectedProject,
    \* Project Store and the HTTP requests in flight
    store, nextPid, net,
    \* NewAnalysis
    currentStep, selectedRegion, regionName, terrainData, scenario,
    \* MapInterface (mounted in steps 1 and 4): its state, and which callbacks of
    \* its load effect are pending
    map, isLoading, loadError, isDrawing, drawingPoints, loader,
    \* the page: window.google.maps is defined; the provider's script element
    google, script,
    \* StepRunAnalysis (mounted in step 3) and the runs whose timers are pending
    isRunning, progress, greenSpaceTarget, runs,
    \* StepCollaborate (mounted in step 5)
    newComment,
    \* the wall clock read by Date.now() / new Date()
    now,
    \* the notification (sonner toast) the last handler raised, None if it raised none
    toast,
    \* the system clipboard: the JSON object last written to it, None before
    clipboard,
    \* one call of ApiClient.request: what its fetch ends as, and what the call
    \* has returned (None while it has not)
    fetched, response

appVars    == <<currentPage, projects, selectedProject>>
storeVars  == <<store, nextPid, net>>
wizardVars == <<currentStep, selectedRegion, regionName, terrainData, scenario>>
loadVars   == <<map, isLoading, loadError, loader, google, script>>
mapVars    == <<loadVars, isDrawing, drawingPoints>>
runVars    == <<isRunning, progress, greenSpaceTarget, runs>>
callVars   == <<fetched, response>>
vars == <<appVars, storeVars, wizardVars, mapVars, runVars, newComment, now, toast, clipboard,
          callVars>>

----------------------------------------------------------------------------
\* Bounds of the model

\* most readings of the wall clock in one behaviour (scenario and comment ids)
MaxClock == 2
\* most analysis runs with pending timers at one time
MaxRuns == 2
\* most Projects the store ever creates
MaxProjects == 2
\* most HTTP requests in flight at one time
MaxPending == 1

----------------------------------------------------------------------------
\* Values

None == <<>>
Some(x) == <<x>>

\* the map positions a click can report
Points == {"p", "q", "r", "s"}

\* the drawings the user makes: the clicks of one drawing follow this path, as far
\* as the user likes
ClickPaths == { <<"p", "q", "r", "s">> }

IsPrefix(a, b) == Len(a) <= Len(b) /\ SubSeq(b, 1, Len(a)) = a

\* what the name input can hold
Names == {"", "Bayreuth"}

\* what the comment box can hold: empty, whitespace only, and a real text
CommentTexts == {"", " ", "ok"}

\* outcomes of the four Math.random() draws of the terrain stub
TerrainValues ==
    { [elevation |-> 0,   slope |-> 0,  soilType |-> "Clay", waterPresence |-> FALSE],
      [elevation |-> 499, slope |-> 29, soilType |-> "Silt", waterPresence |-> TRUE] }

\* a Date object, and the ISO-8601 string it serializes to
DateOf(ms) == [kind |-> "Date", ms |-> ms]
toISOString(d) == [kind |-> "ISO", ms |-> d.ms]
\* new Date(x): x is an ISO string (or a Date)
NewDate(x) == [kind |-> "Date", ms |-> x.ms]

\* JSON.stringify of a Scenario: every Date inside it becomes its ISO string
JSONStringify(sc) ==
    [sc EXCEPT !.timestamp = toISOString(@),
               !.comments = [i \in 1..Len(@) |-> [@[i] EXCEPT !.timestamp = toISOString(@)]]]

\* what an HTTP request can end as: an OK response, a non-OK response, no response
Outcomes == {"ok", "http", "network"}

Max(a, b) == IF a >= b THEN a ELSE b

\* toast.success(text) / toast.error(text)
Toast(kind, text) == Some([kind |-> kind, text |-> text])

----------------------------------------------------------------------------
\* StepRunAnalysis: the mock generator

zoneTypes == <<"park", "garden", "forest", "wetland">>

DefaultTarget == 25

\* numZones without the lower limit of three
numZonesUnclamped(targetCoverage) == (targetCoverage + 8) \div 8

\* Math.max(3, Math.floor((targetCoverage / 8) + 1)): the sum is (targetCoverage + 8) / 8
numZones(targetCoverage) == Max(3, (targetCoverage + 8) \div 8)

\* the most zones of one list (target 50)
MaxZones == numZones(50)

\* The Math.random() draws of one run, in thousandths (0..999): one for the
\* name and one for the area of each zone, and the three of the scores. Here
\* the scores and the areas draw k, the name of zone j draws k + shift * j.
DrawVector(k, shift) ==
    [ sus |-> k, acc |-> k, pop |-> k,
      names |-> [j \in 1..MaxZones |-> (k + shift * (j - 1)) % 1000],
      areas |-> [j \in 1..MaxZones |-> k] ]

\* the draws as the runs of the wizard see them
Draws == { DrawVector(500, 250) }

\* where a clicked point lies: latitude and longitude in 1/10000 degree
Position(point) ==
    CASE point = "p" -> [lat |-> 499400, lng |-> 115700]
      [] point = "q" -> [lat |-> 499500, lng |-> 115700]
      [] point = "r" -> [lat |-> 499500, lng |-> 115900]
      [] point = "s" -> [lat |-> 499350, lng |-> 116000]

MinOf(S) == CHOOSE x \in S : \A y \in S : x <= y
MaxOf(S) == CHOOSE x \in S : \A y \in S : x >= y

\* region.map(p => p.lat), region.map(p => p.lng)
Lats(region) == {Position(region[k]).lat : k \in 1..Len(region)}
Lngs(region) == {Position(region[k]).lng : k \in 1..Len(region)}

zoneNames ==
    [ park    |-> <<"Central Park", "Community Park", "Riverside Park", "Heritage Park">>,
      garden  |-> <<"Botanical Garden", "Rose Garden", "Herb Garden", "Sculpture Garden">>,
      forest  |-> <<"Urban Forest", "Nature Reserve", "Wildlife Corridor", "Green Belt">>,
      wetland |-> <<"Wetland Preserve", "Marsh Area", "Pond Ecosystem", "Water Garden">> ]

\* zoneType that goes round the first three types only
zoneTypeOfThree(i) == zoneTypes[(i % 3) + 1]

\* zoneTypes[i % zoneTypes.length]
zoneType(i) == zoneTypes[(i % Len(zoneTypes)) + 1]

\* zoneNames[zoneType][Math.floor(Math.random() * 4)], the draw in thousandths
zoneName(type, draw) == zoneNames[type][((draw * Len(zoneNames[type])) \div 1000) + 1]

\* minLat + latRange * (0.2 + (i * 0.6) / numZones): the factor is (2n + 6i) / 10n
centerLat(minLat, maxLat, i, n) ==
    minLat + ((maxLat - minLat) * (2 * n + 6 * i)) \div (10 * n)

\* centerLng without the "% 1": the factor is (2 + 7i) / 10
centerLngUnwrapped(minLng, maxLng, i) ==
    minLng + ((maxLng - minLng) * (2 + 7 * i)) \div 10

\* minLng + lngRange * (0.2 + ((i * 0.7) % 1)): the factor is (2 + (7i mod 10)) / 10
centerLng(minLng, maxLng, i) ==
    minLng + ((maxLng - minLng) * (2 + ((7 * i) % 10))) \div 10

\* sizeMultiplier with no size for a wetland
sizeMultiplierNoWetland ==
    [park |-> 30, garden |-> 20, forest |-> 40, wetland |-> 0]

\* sizeMultiplier, in 1/10000 degree: 0.003, 0.002, 0.004, 0.0025
sizeMultiplier ==
    [park |-> 30, garden |-> 20, forest |-> 40, wetland |-> 25]

\* Math.floor(Math.random() * 30000) + 15000
zoneArea(draw) == ((draw * 30000) \div 1000) + 15000

\* priorityType: no control of StepRunAnalysis calls setPriorityType, and
\* neither runAnalysis nor the generator reads it
priorityType == "balanced"

generateMockGreenZones(region, targetCoverage, d) ==
    LET n == numZones(targetCoverage)
        minLat == MinOf(Lats(region))
        maxLat == MaxOf(Lats(region))
        minLng == MinOf(Lngs(region))
        maxLng == MaxOf(Lngs(region))
    IN
    [k \in 1..n |->
        LET i == k - 1
            type == zoneType(i)
            lat == centerLat(minLat, maxLat, i, n)
            lng == centerLng(minLng, maxLng, i)
            size == sizeMultiplier[type]
        IN  [ id |-> <<"zone", i>>,
              name |-> zoneName(type, d.names[k]),
              area |-> zoneArea(d.areas[k]),
              type |-> type,
              coordinates |-> << [lat |-> lat - size, lng |-> lng - size],
                                 [lat |-> lat + size, lng |-> lng - size],
                                 [lat |-> lat + size, lng |-> lng + size],
                                 [lat |-> lat - size, lng |-> lng + size] >> ]]

\* NewScenario with the coverage worked out from the zones, eight percent each
NewScenarioCoverageFromZones(region, target, t, d) ==
    [ id |-> t,
      name |-> "AI Generated Scenario",
      timestamp |-> DateOf(t),
      region |-> region,
      greenZones |-> generateMockGreenZones(region, target, d),
      coverage |-> 8 * Len(generateMockGreenZones(region, target, d)),
      sustainabilityScore |-> ((d.sus * 30) \div 1000) + 70,
      accessibilityScore |-> ((d.acc * 25) \div 1000) + 75,
      populationServed |-> ((d.pop * 50000) \div 1000) + 100000,
      status |-> "draft",
      comments |-> <<>> ]

\* NewScenario with the sustainability draw scaled by 31 instead of 30
NewScenarioWideScore(region, target, t, d) ==
    [ id |-> t,
      name |-> "AI Generated Scenario",
      timestamp |-> DateOf(t),
      region |-> region,
      greenZones |-> generateMockGreenZones(region, target, d),
      coverage |-> target,
      sustainabilityScore |-> ((d.sus * 31) \div 1000) + 70,
      accessibilityScore |-> ((d.acc * 25) \div 1000) + 75,
      populationServed |-> ((d.pop * 50000) \div 1000) + 100000,
      status |-> "draft",
      comments |-> <<>> ]

NewScenario(region, target, t, d) ==
    [ id |-> t,
      name |-> "AI Generated Scenario",
      timestamp |-> DateOf(t),
      region |-> region,
      greenZones |-> generateMockGreenZones(region, target, d),
      coverage |-> target,
      sustainabilityScore |-> ((d.sus * 30) \div 1000) + 70,
      accessibilityScore |-> ((d.acc * 25) \div 1000) + 75,
      populationServed |-> ((d.pop * 50000) \div 1000) + 100000,
      status |-> "draft",
      comments |-> <<>> ]

----------------------------------------------------------------------------
\* NewAnalysis: the wizard

WizardOpen == currentPage = "new-analysis"

\* canProceedAt with the name check of step 1 forgotten
canProceedAtNameless(step) ==
    IF step = 1 THEN selectedRegion # None
    ELSE IF step = 2 THEN terrainData # None
    ELSE IF step = 3 THEN scenario # None
    ELSE IF step = 4 THEN scenario # None
    ELSE TRUE

\* the completion predicate of a step, over the wizard's current data
canProceedAt(step) ==
    IF step = 1 THEN selectedRegion # None /\ regionName # ""
    ELSE IF step = 2 THEN terrainData # None
    ELSE IF step = 3 THEN scenario # None
    ELSE IF step = 4 THEN scenario # None
    ELSE TRUE

canProceed == canProceedAt(currentStep)

\* the step handleNext / handleBack leave the wizard in, called in step `step`
NextStep(step) == IF canProceedAt(step) /\ step < 5 THEN step + 1 ELSE step

\* BackStep that asks for the step it goes to to be complete
BackStepValidated(step) == IF step > 1 /\ canProceedAt(step - 1) THEN step - 1 ELSE step

BackStep(step) == IF step > 1 THEN step - 1 ELSE step

\* The step components keep their state in themselves: leaving a step unmounts
\* its component, entering one mounts it with its initial state.
HasMap(step) == step \in {1, 4}

\* The load effect of a MapInterface, run when it is mounted: the map is made
\* at once if the provider is there; else the effect polls for it, with the
\* 10 s timeout, if the page has the provider's script element already; else
\* it appends the script element and waits for its onload / onerror.
loadEffect ==
    /\ map' = google
    /\ isLoading' = ~google
    /\ loadError' = FALSE
    /\ loader' = IF google THEN "idle" ELSE IF script # "none" THEN "poll" ELSE "script"
    /\ script' = IF ~google /\ script = "none" THEN "loading" ELSE script
    /\ google' = google

MountStep(step) ==
    /\ IF HasMap(step)
       THEN loadEffect
       ELSE /\ map' = FALSE
            /\ isLoading' = FALSE
            /\ loadError' = FALSE
            /\ loader' = "idle"
            /\ UNCHANGED <<google, script>>
    /\ isDrawing' = FALSE
    /\ drawingPoints' = <<>>
    /\ isRunning' = FALSE
    /\ progress' = 0
    /\ greenSpaceTarget' = DefaultTarget
    /\ newComment' = ""

\* A run whose StepRunAnalysis is unmounted keeps its timers and its closure
\* (Region, target, the wizard's setScenario). Its setProgress and setIsRunning
\* reach no component any more, so its first four timers change nothing: they
\* are stuttering steps, and the run's count of them is no longer kept.
DetachRuns == [i \in 1..Len(runs) |-> [runs[i] EXCEPT !.attached = FALSE, !.ticks = 0]]

GoToStep(step) ==
    IF step = currentStep
    THEN UNCHANGED <<currentStep, mapVars, runVars, newComment>>
    ELSE /\ currentStep' = step
         /\ MountStep(step)
         /\ runs' = DetachRuns

handleNext ==
    /\ WizardOpen
    /\ GoToStep(NextStep(currentStep))
    /\ UNCHANGED <<appVars, storeVars, selectedRegion, regionName, terrainData, scenario, now>>
    /\ toast' = None
    /\ UNCHANGED <<clipboard, callVars>>

handleBack ==
    /\ WizardOpen
    /\ GoToStep(BackStep(currentStep))
    /\ UNCHANGED <<appVars, storeVars, selectedRegion, regionName, terrainData, scenario, now>>
    /\ toast' = None
    /\ UNCHANGED <<clipboard, callVars>>

\* the name input of step 1
onRegionNameChange(name) ==
    /\ WizardOpen /\ currentStep = 1
    /\ regionName' = name
    /\ UNCHANGED <<appVars, storeVars, currentStep, selectedRegion, terrainData, scenario,
                   mapVars, runVars, newComment, now>>
    /\ toast' = None
    /\ UNCHANGED <<clipboard, callVars>>

----------------------------------------------------------------------------
\* MapInterface: the Region Selector of step 1

SelectorMounted == WizardOpen /\ currentStep = 1

\* the controls bar is rendered once loading is over without an error
ControlsShown == SelectorMounted /\ ~isLoading /\ ~loadError

\* a MapInterface is mounted
MapMounted == WizardOpen /\ HasMap(currentStep)

\* The provider's script has been fetched and run; it has defined
\* window.google.maps (initialized) or not. script.onload is the handler of the
\* MapInterface that appended the element: if that one is still mounted and the
\* provider is there it makes the map (built), or catches the constructor's
\* exception; if the provider is not there it does nothing.
scriptOnload(initialized, built) ==
    /\ script = "loading"
    /\ script' = "loaded"
    /\ google' = initialized
    /\ IF loader = "script" /\ initialized
       THEN /\ map' = built
            /\ loadError' = ~built
            /\ isLoading' = FALSE
       ELSE UNCHANGED <<map, isLoading, loadError>>
    /\ loader' = IF loader = "script" THEN "idle" ELSE loader
    /\ UNCHANGED <<appVars, storeVars, wizardVars, isDrawing, drawingPoints,
                   runVars, newComment, now>>
    /\ toast' = None
    /\ UNCHANGED <<clipboard, callVars>>

\* the script could not be fetched: script.onerror
scriptOnerror ==
    /\ script = "loading"
    /\ script' = "failed"
    /\ IF loader = "script"
       THEN /\ loadError' = TRUE
            /\ isLoading' = FALSE
            /\ loader' = "idle"
       ELSE UNCHANGED <<isLoading, loadError, loader>>
    /\ UNCHANGED <<appVars, storeVars, wizardVars, map, google, isDrawing, drawingPoints,
                   runVars, newComment, now>>
    /\ toast' = None
    /\ UNCHANGED <<clipboard, callVars>>

\* a tick of the 100 ms interval that finds the provider: the interval is
\* cleared and the map made (a tick that does not find it changes nothing)
checkInterval ==
    /\ MapMounted /\ loader = "poll" /\ google
    /\ map' = TRUE
    /\ isLoading' = FALSE
    /\ loader' = "idle"
    /\ UNCHANGED <<appVars, storeVars, wizardVars, loadError, google, script, isDrawing,
                   drawingPoints, runVars, newComment, now>>
    /\ toast' = None
    /\ UNCHANGED <<clipboard, callVars>>

\* the 10 s timeout fires while the interval is still running: it clears the
\* interval, and sets the error state if the provider is not there
loadTimeout ==
    /\ MapMounted /\ loader = "poll"
    /\ loader' = "idle"
    /\ IF ~google
       THEN /\ loadError' = TRUE
            /\ isLoading' = FALSE
       ELSE UNCHANGED <<isLoading, loadError>>
    /\ UNCHANGED <<appVars, storeVars, wizardVars, map, google, script, isDrawing,
                   drawingPoints, runVars, newComment, now>>
    /\ toast' = None
    /\ UNCHANGED <<clipboard, callVars>>

\* "Select Region": the button is disabled while drawing
handleStartDrawing ==
    /\ ControlsShown /\ ~isDrawing
    /\ IF ~map
       THEN UNCHANGED <<isDrawing, drawingPoints>>
       ELSE /\ isDrawing' = TRUE
            /\ drawingPoints' = <<>>
    /\ UNCHANGED <<appVars, storeVars, wizardVars, loadVars,
                   runVars, newComment, now>>
    /\ toast' = None
    /\ UNCHANGED <<clipboard, callVars>>

\* the click listener that handleStartDrawing puts on the map
mapClick(point) ==
    /\ ControlsShown /\ isDrawing
    /\ \E path \in ClickPaths : IsPrefix(Append(drawingPoints, point), path)
    /\ drawingPoints' = Append(drawingPoints, point)
    /\ UNCHANGED <<appVars, storeVars, wizardVars, loadVars, isDrawing,
                   runVars, newComment, now>>
    /\ toast' = None
    /\ UNCHANGED <<clipboard, callVars>>

\* handleRegionSelect that sets the Region and leaves the TerrainRecord alone
handleRegionSelectOnly(region, terrain) ==
    /\ selectedRegion' = Some(region)
    /\ terrainData' = terrainData

\* StepSelectArea.handleRegionSelect, the onRegionSelect the selector is given:
\* the wizard's Region and a fresh mock TerrainRecord, together
handleRegionSelect(region, terrain) ==
    /\ selectedRegion' = Some(region)
    /\ terrainData' = Some(terrain)

\* what handleFinishDrawing emits through onRegionSelect
FinishEmits == drawingPoints

\* FinishAccepted with a threshold of two points
FinishAcceptedFromTwo == map /\ Len(drawingPoints) >= 2

\* "Finish": accepted from 3 points on
FinishAccepted == map /\ Len(drawingPoints) >= 3

handleFinishDrawing ==
    /\ ControlsShown /\ isDrawing
    /\ IF ~FinishAccepted
       THEN UNCHANGED <<selectedRegion, terrainData, isDrawing, drawingPoints>>
       ELSE /\ \E terrain \in TerrainValues : handleRegionSelect(FinishEmits, terrain)
            /\ isDrawing' = FALSE
            /\ drawingPoints' = <<>>
    /\ UNCHANGED <<appVars, storeVars, currentStep, regionName, scenario,
                   loadVars, runVars, newComment, now>>
    /\ toast' = None
    /\ UNCHANGED <<clipboard, callVars>>

\* handleCancelDrawing that hands a finished polygon over before it resets
handleCancelDrawingEmits ==
    /\ ControlsShown /\ isDrawing
    /\ IF ~map
       THEN UNCHANGED <<isDrawing, drawingPoints, selectedRegion, terrainData>>
       ELSE /\ isDrawing' = FALSE
            /\ drawingPoints' = <<>>
            /\ IF Len(drawingPoints) >= 3
               THEN \E terrain \in TerrainValues : handleRegionSelect(drawingPoints, terrain)
               ELSE UNCHANGED <<selectedRegion, terrainData>>
    /\ UNCHANGED <<appVars, storeVars, currentStep, regionName, scenario, loadVars,
                   runVars, newComment, now>>
    /\ toast' = None
    /\ UNCHANGED <<clipboard, callVars>>

\* "Cancel"
handleCancelDrawing ==
    /\ ControlsShown /\ isDrawing
    /\ IF ~map
       THEN UNCHANGED <<isDrawing, drawingPoints>>
       ELSE /\ isDrawing' = FALSE
            /\ drawingPoints' = <<>>
    /\ UNCHANGED <<appVars, storeVars, wizardVars, loadVars,
                   runVars, newComment, now>>
    /\ toast' = None
    /\ UNCHANGED <<clipboard, callVars>>

----------------------------------------------------------------------------
\* StepRunAnalysis: one run is five 800 ms timers, then the Scenario

RunMounted == WizardOpen /\ currentStep = 3

\* "Run AI Layout Generation": shown while this component is not running. The
\* run keeps the Region and the target it was started with.
runAnalysis ==
    /\ RunMounted /\ ~isRunning
    /\ Len(runs) < MaxRuns
    /\ now + Len(runs) < MaxClock
    /\ IF selectedRegion = None
       THEN UNCHANGED runVars
       ELSE /\ isRunning' = TRUE
            /\ progress' = 0
            /\ runs' = Append(runs, [ticks |-> 0, region |-> selectedRegion[1],
                                     target |-> greenSpaceTarget, attached |-> TRUE])
            /\ UNCHANGED greenSpaceTarget
    /\ UNCHANGED <<appVars, storeVars, wizardVars, mapVars, newComment, now>>
    /\ toast' = None
    /\ UNCHANGED <<clipboard, callVars>>

RemoveAt(seq, i) == [j \in 1..(Len(seq) - 1) |-> IF j < i THEN seq[j] ELSE seq[j + 1]]

\* runTick with four progress steps of 25
runTickByQuarters(i) ==
    /\ WizardOpen
    /\ i \in 1..Len(runs)
    /\ runs[i].attached
    /\ runs[i].ticks < 4
    /\ runs' = [runs EXCEPT ![i].ticks = @ + 1]
    /\ progress' = 25 * (runs[i].ticks + 1)
    /\ UNCHANGED <<appVars, storeVars, wizardVars, mapVars, isRunning, greenSpaceTarget,
                   newComment, now>>
    /\ toast' = None
    /\ UNCHANGED <<clipboard, callVars>>

\* one of the first four timers of the mounted component's run fires:
\* setProgress(20 .. 80)
runTick(i) ==
    /\ WizardOpen
    /\ i \in 1..Len(runs)
    /\ runs[i].attached
    /\ runs[i].ticks < 4
    /\ runs' = [runs EXCEPT ![i].ticks = @ + 1]
    /\ progress' = 20 * (runs[i].ticks + 1)
    /\ UNCHANGED <<appVars, storeVars, wizardVars, mapVars, isRunning, greenSpaceTarget,
                   newComment, now>>
    /\ toast' = None
    /\ UNCHANGED <<clipboard, callVars>>

\* the fifth timer of run i fires: setProgress(100), the Scenario is generated
\* and handed to the wizard (setScenario), setIsRunning(false)
runFinishWith(i, d) ==
    /\ WizardOpen
    /\ i \in 1..Len(runs)
    /\ runs[i].ticks = 4 \/ ~runs[i].attached
    /\ now < MaxClock
    /\ now' = now + 1
    /\ scenario' = Some(NewScenario(runs[i].region, runs[i].target, now + 1, d))
    /\ runs' = RemoveAt(runs, i)
    /\ progress' = IF runs[i].attached THEN 100 ELSE progress
    /\ isRunning' = IF runs[i].attached THEN FALSE ELSE isRunning
    /\ UNCHANGED <<appVars, storeVars, currentStep, selectedRegion, regionName, terrainData,
                   mapVars, greenSpaceTarget, newComment>>
    /\ toast' = None
    /\ UNCHANGED <<clipboard, callVars>>

\* ... in a session whose runs draw from Draws
runFinish(i) == \E d \in Draws : runFinishWith(i, d)

----------------------------------------------------------------------------
\* HTTP requests in flight, and what the App does when they end

ListRequest == [kind |-> "list", pid |-> 0, body |-> None]

\* loadProjects: the list as received, with the two dates it re-parses
ParseProject(project) ==
    [project EXCEPT !.date = NewDate(@), !.scenario.timestamp = NewDate(@)]

ParseProjects(data) == [i \in 1..Len(data) |-> ParseProject(data[i])]

\* handleSaveProject: the body of the POST
ProjectData(sc, name) ==
    [ name |-> sc.name,
      region |-> name,
      status |-> sc.status,
      scenario |-> JSONStringify([sc EXCEPT !.timestamp = toISOString(@)]) ]

PendingCreates == Cardinality({i \in 1..Len(net) : net[i].kind = "create"})

----------------------------------------------------------------------------
\* ApiClient.request: one fetch, the body read as JSON, the result as an ApiResponse

\* what a fetch is rejected with: a TypeError, or a value that is no Error
Rejections == { [isError |-> TRUE, message |-> "Failed to fetch"],
                [isError |-> FALSE, message |-> ""] }

Statuses == {200, 201, 204, 400, 401, 404, 422, 500, 502, 503}

\* the text of a response body
Bodies == {"", "<html>", "null", "[]", "{}", "{\"detail\":\"\"}", "{\"detail\":\"Not found\"}"}

\* what a fetch can end as: rejected, or resolved with a response
FetchOutcomes ==
    { [kind |-> "rejected", status |-> 0, body |-> "", reason |-> Some(r)] : r \in Rejections }
    \cup
    { [kind |-> "response", status |-> st, body |-> b, reason |-> None] :
          st \in Statuses, b \in Bodies }

\* response.json(): the value the text stands for, None when it is no JSON text
\* (the promise is then rejected with a SyntaxError)
json(text) ==
    CASE text = "null" -> Some([type |-> "null", detail |-> None])
      [] text = "[]" -> Some([type |-> "array", detail |-> None])
      [] text = "{}" -> Some([type |-> "object", detail |-> None])
      [] text = "{\"detail\":\"\"}" -> Some([type |-> "object", detail |-> Some("")])
      [] text = "{\"detail\":\"Not found\"}" -> Some([type |-> "object", detail |-> Some("Not found")])
      [] OTHER -> None

\* response.ok
ok(status) == status \in 200..299

\* how a block of code ends: with a return value, or with an exception
Return(value) == [thrown |-> None, value |-> Some(value)]
Throw(exception) == [thrown |-> Some(exception), value |-> None]

\* the try block of request
requestTry(f) ==
    IF f.kind = "rejected" THEN Throw(f.reason[1])
    ELSE LET data == json(f.body)
         IN  IF data = None
             THEN Throw([isError |-> TRUE, message |-> "Unexpected token"])
             ELSE IF ~ok(f.status)
             THEN IF data[1].type = "null"
                  THEN Throw([isError |-> TRUE, message |-> "Cannot read properties of null"])
                  ELSE Return([ data |-> None,
                                error |-> IF data[1].detail # None /\ data[1].detail # Some("")
                                          THEN data[1].detail
                                          ELSE Some("An error occurred"),
                                status |-> f.status ])
             ELSE Return([data |-> data, error |-> None, status |-> f.status])

\* request: the try block, and the catch clause for what it throws
request(f) ==
    LET attempt == requestTry(f)
    IN  IF attempt.thrown = None THEN attempt
        ELSE Return([ data |-> None,
                      error |-> Some(IF attempt.thrown[1].isError
                                     THEN attempt.thrown[1].message
                                     ELSE "Network error"),
                      status |-> 0 ])

\* the call that is followed returns (or throws) to its caller
requestReturns ==
    /\ fetched # None /\ response = None
    /\ response' = Some(request(fetched[1]))
    /\ UNCHANGED <<appVars, storeVars, wizardVars, mapVars, runVars, newComment, now,
                   toast, clipboard, fetched>>

----------------------------------------------------------------------------
\* The share actions: a summary goes to the clipboard

\* StepViewResults.handleShare: shareData
ViewResultsShareData(sc) ==
    [ name |-> sc.name,
      coverage |-> sc.coverage,
      sustainability |-> sc.sustainabilityScore,
      accessibility |-> sc.accessibilityScore,
      greenZones |-> Len(sc.greenZones),
      populationServed |-> sc.populationServed ]

\* ProjectArchive.handleShare: shareData
ArchiveShareData(project) ==
    [ name |-> project.name,
      region |-> project.region,
      coverage |-> project.scenario.coverage,
      sustainability |-> project.scenario.sustainabilityScore,
      greenZones |-> Len(project.scenario.greenZones) ]

\* ScenarioPanel.handleShare: shareData (no page of the App mounts ScenarioPanel)
ScenarioPanelShareData(sc) ==
    [ name |-> sc.name,
      coverage |-> sc.coverage,
      sustainability |-> sc.sustainabilityScore,
      accessibility |-> sc.accessibilityScore,
      zones |-> Len(sc.greenZones) ]

\* StepViewResults: "Share", in step 4
viewResultsShare ==
    /\ WizardOpen /\ currentStep = 4 /\ scenario # None
    /\ clipboard' = Some(ViewResultsShareData(scenario[1]))
    /\ toast' = Toast("success", "Scenario data copied to clipboard")
    /\ UNCHANGED <<appVars, storeVars, wizardVars, mapVars, runVars, newComment, now,
                   callVars>>

\* ProjectArchive: the share button of a row
archiveShare(project) ==
    /\ currentPage = "projects"
    /\ clipboard' = Some(ArchiveShareData(project))
    /\ toast' = Toast("success", "Project data copied to clipboard")
    /\ UNCHANGED <<appVars, storeVars, wizardVars, mapVars, runVars, newComment, now,
                   callVars>>

----------------------------------------------------------------------------
\* StepCollaborate

CollaborateMounted == WizardOpen /\ currentStep = 5 /\ scenario # None

\* the comment box
setNewComment(text) ==
    /\ CollaborateMounted
    /\ newComment' = text
    /\ UNCHANGED <<appVars, storeVars, wizardVars, mapVars, runVars, now>>
    /\ toast' = None
    /\ UNCHANGED <<clipboard, callVars>>

\* String.prototype.trim() of the texts the comment box can hold
trim(text) == IF text = " " THEN "" ELSE text

NewComment(text, t) ==
    [id |-> t, author |-> "Urban Planner", text |-> text, timestamp |-> DateOf(t)]

\* WithComment rebuilding the Scenario with the status of a new one
WithCommentAsDraft(sc, comment) ==
    [sc EXCEPT !.comments = Append(@, comment), !.status = "draft"]

\* WithComment putting the new comment first
WithCommentFirst(sc, comment) == [sc EXCEPT !.comments = <<comment>> \o @]

\* the Scenario handleAddComment hands to onScenarioUpdate
WithComment(sc, comment) == [sc EXCEPT !.comments = Append(@, comment)]

handleAddComment ==
    /\ CollaborateMounted
    /\ IF trim(newComment) = ""
       THEN /\ UNCHANGED <<scenario, newComment, now>>
            /\ toast' = None
       ELSE /\ now + Len(runs) < MaxClock
            /\ now' = now + 1
            /\ scenario' = Some(WithComment(scenario[1], NewComment(newComment, now + 1)))
            /\ newComment' = ""
            /\ toast' = Toast("success", "Comment added")
    /\ UNCHANGED <<appVars, storeVars, currentStep, selectedRegion, regionName, terrainData,
                   mapVars, runVars>>
    /\ UNCHANGED <<clipboard, callVars>>

\* the Scenario handleApprove hands to onScenarioUpdate
Approved(sc) == [sc EXCEPT !.status = "completed"]

\* ApproveEnabled with the button never disabled
ApproveAlwaysEnabled == TRUE

\* "Approve & Complete" is disabled once the status is completed
ApproveEnabled == scenario[1].status # "completed"

\* projectId && onProjectUpdate: the session was opened on a Project
handleApprove ==
    /\ CollaborateMounted
    /\ ApproveEnabled
    /\ scenario' = Some(Approved(scenario[1]))
    /\ IF selectedProject # None
       THEN /\ Len(net) < MaxPending
            /\ net' = Append(net, [kind |-> "update", pid |-> selectedProject[1].id,
                                   body |-> Some([status |-> "completed",
                                                  scenario |-> JSONStringify(Approved(scenario[1]))])])
            /\ toast' = None
       ELSE /\ UNCHANGED net
            /\ toast' = Toast("success", "Scenario approved")
    /\ UNCHANGED <<appVars, store, nextPid, currentStep, selectedRegion, regionName,
                   terrainData, mapVars, runVars, newComment, now>>
    /\ UNCHANGED <<clipboard, callVars>>

----------------------------------------------------------------------------
\* App: pages, and the wizard session each opening of the wizard page starts

Pages == {"dashboard", "new-analysis", "projects"}

\* how many Projects the Dashboard lists
RecentCount == 3

recentProjects == SubSeq(projects, 1, IF Len(projects) < RecentCount THEN Len(projects) ELSE RecentCount)

\* MountWizard that starts every session at the first step
MountWizardAtStart(sel) ==
    /\ currentStep' = 1
    /\ selectedRegion' = IF sel # None THEN Some(sel[1].scenario.region) ELSE None
    /\ regionName' = IF sel # None THEN sel[1].region ELSE ""
    /\ terrainData' = None
    /\ scenario' = IF sel # None THEN Some(sel[1].scenario) ELSE None
    /\ MountStep(1)
    /\ runs' = <<>>

\* NewAnalysis is mounted: its useState initialisers, given the selectedProject prop
MountWizard(sel) ==
    /\ currentStep' = IF sel # None THEN 5 ELSE 1
    /\ selectedRegion' = IF sel # None THEN Some(sel[1].scenario.region) ELSE None
    /\ regionName' = IF sel # None THEN sel[1].region ELSE ""
    /\ terrainData' = None
    /\ scenario' = IF sel # None THEN Some(sel[1].scenario) ELSE None
    /\ MountStep(IF sel # None THEN 5 ELSE 1)
    /\ runs' = <<>>

\* NewAnalysis is unmounted: its state is gone, and so is the state of its step
UnmountWizard ==
    /\ currentStep' = 0
    /\ selectedRegion' = None
    /\ regionName' = ""
    /\ terrainData' = None
    /\ scenario' = None
    /\ MountStep(0)
    /\ runs' = <<>>

\* setCurrentPage(page), after selectedProject has become sel
ShowPage(page, sel) ==
    /\ currentPage' = page
    /\ IF page = currentPage THEN UNCHANGED <<wizardVars, mapVars, runVars, newComment>>
       ELSE IF page = "new-analysis" THEN MountWizard(sel)
       ELSE IF currentPage = "new-analysis" THEN UnmountWizard
       ELSE UNCHANGED <<wizardVars, mapVars, runVars, newComment>>

\* Sidebar: onNavigate = setCurrentPage
onNavigate(page) ==
    /\ ShowPage(page, selectedProject)
    /\ UNCHANGED <<projects, selectedProject, storeVars, now>>
    /\ toast' = None
    /\ UNCHANGED <<clipboard, callVars>>

\* Dashboard: "Start New Project"
onStartNewProject ==
    /\ currentPage = "dashboard"
    /\ selectedProject' = None
    /\ ShowPage("new-analysis", None)
    /\ UNCHANGED <<projects, storeVars, now>>
    /\ toast' = None
    /\ UNCHANGED <<clipboard, callVars>>

\* Dashboard: a click on one of the recent Projects
handleViewProject(project) ==
    /\ currentPage = "dashboard"
    /\ selectedProject' = Some(project)
    /\ ShowPage("new-analysis", Some(project))
    /\ UNCHANGED <<projects, storeVars, now>>
    /\ toast' = None
    /\ UNCHANGED <<clipboard, callVars>>

\* ProjectArchive: the eye button of a row; its onViewProject ignores the row
archiveViewProject(project) ==
    /\ currentPage = "projects"
    /\ ShowPage("new-analysis", selectedProject)
    /\ UNCHANGED <<projects, selectedProject, storeVars, now>>
    /\ toast' = None
    /\ UNCHANGED <<clipboard, callVars>>

\* NewAnalysis: "Back to Dashboard"
onCancel ==
    /\ WizardOpen
    /\ selectedProject' = None
    /\ ShowPage("dashboard", None)
    /\ UNCHANGED <<projects, storeVars, now>>
    /\ toast' = None
    /\ UNCHANGED <<clipboard, callVars>>

\* handleSave with the button shown from the Results step on
handleSaveFromResults ==
    /\ WizardOpen /\ currentStep >= 4
    /\ IF scenario = None
       THEN UNCHANGED <<appVars, storeVars, wizardVars, mapVars, runVars, newComment>>
       ELSE /\ Len(net) < MaxPending
            /\ nextPid + PendingCreates < MaxProjects
            /\ net' = Append(net, [kind |-> "create", pid |-> 0,
                                   body |-> Some(ProjectData(scenario[1], regionName))])
            /\ selectedProject' = None
            /\ ShowPage("dashboard", None)
            /\ UNCHANGED <<projects, store, nextPid>>
    /\ UNCHANGED now
    /\ toast' = None
    /\ UNCHANGED <<clipboard, callVars>>

\* NewAnalysis: "Save Project", the button of step 5. onSaveProject starts the
\* POST and is not awaited; onCancel follows at once.
handleSave ==
    /\ WizardOpen /\ currentStep = 5
    /\ IF scenario = None
       THEN UNCHANGED <<appVars, storeVars, wizardVars, mapVars, runVars, newComment>>
       ELSE /\ Len(net) < MaxPending
            /\ nextPid + PendingCreates < MaxProjects
            /\ net' = Append(net, [kind |-> "create", pid |-> 0,
                                   body |-> Some(ProjectData(scenario[1], regionName))])
            /\ selectedProject' = None
            /\ ShowPage("dashboard", None)
            /\ UNCHANGED <<projects, store, nextPid>>
    /\ UNCHANGED now
    /\ toast' = None
    /\ UNCHANGED <<clipboard, callVars>>

\* ProjectArchive: the bin button of a row, confirmed
handleDeleteProject(id) ==
    /\ currentPage = "projects"
    /\ Len(net) < MaxPending
    /\ net' = Append(net, [kind |-> "delete", pid |-> id, body |-> None])
    /\ UNCHANGED <<appVars, store, nextPid, wizardVars, mapVars, runVars, newComment, now>>
    /\ toast' = Toast("success", "Project deleted")
    /\ UNCHANGED <<clipboard, callVars>>

----------------------------------------------------------------------------
\* The Project Store (the REST back end), and the end of each request

StoreIds == {store[i].id : i \in 1..Len(store)}

\* POST /api/projects/: the created Project
StoreCreate(data, id, t) ==
    [ id |-> id, name |-> data.name, region |-> data.region, status |-> data.status,
      date |-> toISOString(DateOf(t)), scenario |-> data.scenario ]

\* PUT /api/projects/{id} with {status, scenario}
StoreUpdate(id, data) ==
    [i \in 1..Len(store) |->
        IF store[i].id = id
        THEN [store[i] EXCEPT !.status = data.status, !.scenario = data.scenario]
        ELSE store[i]]

\* DELETE /api/projects/{id}
StoreDelete(id) == SelectSeq(store, LAMBDA project : project.id # id)

Pending(i, kind) == i \in 1..Len(net) /\ net[i].kind = kind

\* loadProjects: GET /api/projects/ ends
listResponds(i, outcome) ==
    /\ Pending(i, "list")
    /\ projects' = IF outcome = "ok" THEN ParseProjects(store) ELSE projects
    /\ net' = RemoveAt(net, i)
    /\ UNCHANGED <<currentPage, selectedProject, store, nextPid, wizardVars, mapVars,
                   runVars, newComment, now>>
    /\ toast' = None
    /\ UNCHANGED <<clipboard, callVars>>

\* handleSaveProject: the POST ends; with response.data it reloads the list
createResponds(i, outcome) ==
    /\ Pending(i, "create")
    /\ IF outcome = "ok"
       THEN /\ store' = Append(store, StoreCreate(net[i].body[1], nextPid + 1, now))
            /\ nextPid' = nextPid + 1
            /\ net' = [net EXCEPT ![i] = ListRequest]
       ELSE /\ net' = RemoveAt(net, i)
            /\ UNCHANGED <<store, nextPid>>
    /\ UNCHANGED <<appVars, wizardVars, mapVars, runVars, newComment, now>>
    /\ toast' = None
    /\ UNCHANGED <<clipboard, callVars>>

\* handleApprove: the PUT ends; unless fetch rejected, it reloads the list
updateResponds(i, outcome) ==
    /\ Pending(i, "update")
    /\ outcome = "ok" => net[i].pid \in StoreIds
    /\ store' = IF outcome = "ok" THEN StoreUpdate(net[i].pid, net[i].body[1]) ELSE store
    /\ net' = IF outcome = "network" THEN RemoveAt(net, i) ELSE [net EXCEPT ![i] = ListRequest]
    /\ UNCHANGED <<appVars, nextPid, wizardVars, mapVars, runVars, newComment, now>>
    /\ toast' = IF outcome = "network"
                THEN Toast("error", "Failed to save project status")
                ELSE Toast("success", "Project approved and saved")
    /\ UNCHANGED <<clipboard, callVars>>

\* handleDeleteProject: the DELETE ends; it reloads the list whatever the result
deleteResponds(i, outcome) ==
    /\ Pending(i, "delete")
    /\ outcome = "ok" => net[i].pid \in StoreIds
    /\ store' = IF outcome = "ok" THEN StoreDelete(net[i].pid) ELSE store
    /\ net' = [net EXCEPT ![i] = ListRequest]
    /\ UNCHANGED <<appVars, nextPid, wizardVars, mapVars, runVars, newComment, now>>
    /\ toast' = None
    /\ UNCHANGED <<clipboard, callVars>>

----------------------------------------------------------------------------
\* The states the runs start from

\* Projects that earlier sessions have saved: a draft as generated, and a
\* Scenario that was commented on and approved before it was saved
SampleDraft ==
    StoreCreate(ProjectData(NewScenario(<<"p", "q", "r">>, DefaultTarget, 0,
                                        DrawVector(0, 0)),
                            "Bayreuth"), 1, 0)

SampleCompleted ==
    StoreCreate(ProjectData(Approved(WithComment(
                                NewScenario(<<"p", "q", "r", "s">>, DefaultTarget, -1,
                                            DrawVector(999, 0)),
                                NewComment("ok", 0))),
                            "Bayreuth"), 1, 0)

\* what the store holds when the App starts
SampleStores == { <<>>, <<SampleDraft>> }

\* what the wizard is opened on: the store, and the Project chosen from the list
SampleSessions ==
    { <<<<SampleDraft>>, None>>,
      <<<<SampleDraft>>, Some(ParseProject(SampleDraft))>>,
      <<<<SampleCompleted>>, Some(ParseProject(SampleCompleted))>> }

\* no call of ApiClient.request is followed
NoCall == fetched = None /\ response = None

\* no wizard is mounted
NoWizard ==
    /\ currentStep = 0
    /\ selectedRegion = None
    /\ regionName = ""
    /\ terrainData = None
    /\ scenario = None
    /\ map = FALSE
    /\ isLoading = FALSE
    /\ loadError = FALSE
    /\ loader = "idle"
    /\ isDrawing = FALSE
    /\ drawingPoints = <<>>
    /\ isRunning = FALSE
    /\ progress = 0
    /\ greenSpaceTarget = DefaultTarget
    /\ runs = <<>>
    /\ newComment = ""
    /\ toast = None
    /\ clipboard = None

\* App is mounted on the Dashboard, and its effect has started loadProjects
Init ==
    /\ currentPage = "dashboard"
    /\ projects = <<>>
    /\ selectedProject = None
    /\ store \in SampleStores
    /\ nextPid = Len(store)
    /\ net = <<ListRequest>>
    /\ NoWizard
    /\ google = FALSE
    /\ script = "none"
    /\ NoCall
    /\ now = 0

\* what the App shell and the Project Store do
AppNext ==
    \/ \E page \in Pages : onNavigate(page)
    \/ onStartNewProject
    \/ \E i \in 1..Len(recentProjects) : handleViewProject(recentProjects[i])
    \/ \E i \in 1..Len(projects) : archiveViewProject(projects[i])
    \/ onCancel
    \/ handleSave
    \/ \E i \in 1..Len(projects) : handleDeleteProject(projects[i].id)
    \/ \E i \in 1..Len(net), outcome \in Outcomes : listResponds(i, outcome)
    \/ \E i \in 1..Len(net), outcome \in Outcomes : createResponds(i, outcome)
    \/ \E i \in 1..Len(net), outcome \in Outcomes : updateResponds(i, outcome)
    \/ \E i \in 1..Len(net), outcome \in Outcomes : deleteResponds(i, outcome)

\* moving between the steps, and approving
StepNext ==
    \/ handleNext
    \/ handleBack
    \/ handleApprove

\* commenting, and what the Region Selector and the analysis run do
WorkNext ==
    \/ \E text \in CommentTexts : setNewComment(text)
    \/ handleAddComment
    \/ viewResultsShare
    \/ \E name \in Names : onRegionNameChange(name)
    \/ \E initialized, built \in BOOLEAN : scriptOnload(initialized, built)
    \/ scriptOnerror
    \/ checkInterval
    \/ loadTimeout
    \/ handleStartDrawing
    \/ \E point \in Points : mapClick(point)
    \/ handleFinishDrawing
    \/ handleCancelDrawing
    \/ runAnalysis
    \/ \E i \in 1..Len(runs) : runTick(i)
    \/ \E i \in 1..Len(runs) : runFinish(i)

\* The App with its Project Store: sessions are opened on the stored Projects,
\* approved, saved and deleted; the steps of the wizard are not walked, no
\* Region is drawn, no analysis is run, no comment is written, nothing is shared.
AppStep == AppNext \/ handleApprove

AppSpec == Init /\ [][AppStep]_vars

\* Opening and leaving sessions: the user moves between the pages, opens the
\* wizard fresh or on a Project of the lists, walks its steps, approves and
\* cancels, and deletes Projects; nothing is saved.
OpenNext ==
    \/ \E page \in Pages : onNavigate(page)
    \/ onStartNewProject
    \/ \E i \in 1..Len(recentProjects) : handleViewProject(recentProjects[i])
    \/ \E i \in 1..Len(projects) : archiveViewProject(projects[i])
    \/ onCancel
    \/ handleNext
    \/ handleBack
    \/ handleApprove
    \/ \E i \in 1..Len(projects) : handleDeleteProject(projects[i].id)
    \/ \E i \in 1..Len(net), outcome \in Outcomes : listResponds(i, outcome)
    \/ \E i \in 1..Len(net), outcome \in Outcomes : deleteResponds(i, outcome)

OpenSpec == Init /\ [][OpenNext]_vars

\* The Project Archive page over a store of two Projects: rows are shared and
\* deleted, the list is reloaded, and the user moves between the pages.
SampleArchive == <<SampleDraft, [SampleCompleted EXCEPT !.id = 2]>>

ArchiveInit ==
    /\ currentPage = "projects"
    /\ store = SampleArchive
    /\ projects = ParseProjects(store)
    /\ selectedProject = None
    /\ nextPid = Len(store)
    /\ net = <<>>
    /\ NoWizard
    /\ google = FALSE
    /\ script = "none"
    /\ NoCall
    /\ now = 0

ArchiveNext ==
    \/ \E i \in 1..Len(projects) : archiveShare(projects[i])
    \/ \E i \in 1..Len(projects) : handleDeleteProject(projects[i].id)
    \/ \E i \in 1..Len(net), outcome \in Outcomes : deleteResponds(i, outcome)
    \/ \E i \in 1..Len(net), outcome \in Outcomes : listResponds(i, outcome)
    \/ \E page \in Pages : onNavigate(page)
    \/ onCancel

ArchiveSpec == ArchiveInit /\ [][ArchiveNext]_vars

\* One wizard session, from the moment NewAnalysis is mounted (fresh, or on a
\* Project of the list) until it is closed; the requests it sends stay pending.
SessionInit ==
    /\ \E session \in SampleSessions :
          /\ store = session[1]
          /\ selectedProject = session[2]
    /\ projects = ParseProjects(store)
    /\ nextPid = Len(store)
    /\ net = <<>>
    /\ now = 0
    /\ currentPage = "new-analysis"
    /\ currentStep = IF selectedProject # None THEN 5 ELSE 1
    /\ selectedRegion = IF selectedProject # None THEN Some(selectedProject[1].scenario.region) ELSE None
    /\ regionName = IF selectedProject # None THEN selectedProject[1].region ELSE ""
    /\ terrainData = None
    /\ scenario = IF selectedProject # None THEN Some(selectedProject[1].scenario) ELSE None
    \* the page has just been opened; the Region Selector of a fresh session has
    \* appended the provider's script
    /\ google = FALSE
    /\ script = IF currentStep = 1 THEN "loading" ELSE "none"
    /\ loader = IF currentStep = 1 THEN "script" ELSE "idle"
    /\ map = FALSE
    /\ isLoading = (currentStep = 1)
    /\ loadError = FALSE
    /\ isDrawing = FALSE
    /\ drawingPoints = <<>>
    /\ isRunning = FALSE
    /\ progress = 0
    /\ greenSpaceTarget = DefaultTarget
    /\ runs = <<>>
    /\ newComment = ""
    /\ toast = None
    /\ clipboard = None
    /\ NoCall

Next ==
    \/ StepNext
    \/ WorkNext
    \/ onCancel
    \/ handleSave

Spec == SessionInit /\ [][Next]_vars

\* The fetch of the provider's script comes to an end, one way or the other,
\* and the interval and the timeout of a mounted MapInterface fire.
LoadEventsFire ==
    /\ WF_vars(\/ \E initialized, built \in BOOLEAN : scriptOnload(initialized, built)
               \/ scriptOnerror)
    /\ WF_vars(checkInterval)
    /\ WF_vars(loadTimeout)

LoadSpec == Spec /\ LoadEventsFire

\* One call of ApiClient.request, over what its fetch can end as
RequestInit ==
    /\ currentPage = "dashboard"
    /\ projects = <<>>
    /\ selectedProject = None
    /\ store = <<>>
    /\ nextPid = 0
    /\ net = <<>>
    /\ NoWizard
    /\ google = FALSE
    /\ script = "none"
    /\ now = 0
    /\ fetched \in { Some(f) : f \in FetchOutcomes }
    /\ response = None

RequestNext == requestReturns

RequestSpec == RequestInit /\ [][RequestNext]_vars

\* The analysis step: a fresh session that has reached step 3, the component's
\* greenSpaceTarget anywhere in the range of the green-space target; then the
\* run, and the steps and the Collaborate actions that follow it.
Targets == 10..50

AllDraws == { DrawVector(k, 250) : k \in {0, 500, 999} }

\* the Regions the Region Selector can hand over: three or four clicked points
Regions == { SubSeq(path, 1, n) : path \in ClickPaths, n \in 3..4 }

\* step 3 of a fresh session whose Region is one of `regions`
AnalysisInit(regions) ==
    /\ currentPage = "new-analysis"
    /\ projects = <<>>
    /\ selectedProject = None
    /\ store = <<>>
    /\ nextPid = 0
    /\ net = <<>>
    /\ now = 0
    /\ toast = None
    /\ currentStep = 3
    /\ selectedRegion \in { Some(region) : region \in regions }
    /\ regionName = "Bayreuth"
    \* the TerrainRecord is only displayed in this step: one is enough
    /\ terrainData \in { Some(terrain) : terrain \in {t \in TerrainValues : t.waterPresence} }
    /\ scenario = None
    \* the Region was drawn on a map: the provider is there
    /\ google = TRUE
    /\ script = "loaded"
    /\ loader = "idle"
    /\ map = FALSE
    /\ isLoading = FALSE
    /\ loadError = FALSE
    /\ isDrawing = FALSE
    /\ drawingPoints = <<>>
    /\ isRunning = FALSE
    /\ progress = 0
    /\ greenSpaceTarget \in Targets
    /\ runs = <<>>
    /\ newComment = ""
    /\ clipboard = None
    /\ NoCall

\* the run and what follows it do not look into the Region, nor into what was
\* drawn: one Region, the draws of Draws
RunInit == AnalysisInit({ region \in Regions : Len(region) = 4 })

RunNext ==
    \/ runAnalysis
    \/ \E i \in 1..Len(runs) : runTick(i)
    \/ \E i \in 1..Len(runs) : runFinish(i)
    \/ handleNext
    \/ handleBack
    \/ viewResultsShare
    \/ \E text \in CommentTexts : setNewComment(text)
    \/ handleAddComment
    \/ handleApprove

RunSpec == RunInit /\ [][RunNext]_vars

\* ... in which every timer that is set fires
TimersFire ==
    \A i \in 1..MaxRuns : WF_vars(runTick(i)) /\ WF_vars(runFinish(i))

\* The runs alone, with the steps around them: analyses are started, their
\* timers fire, and the user leaves the step and comes back.
LiveNext ==
    \/ runAnalysis
    \/ \E i \in 1..Len(runs) : runTick(i)
    \/ \E i \in 1..Len(runs) : runFinish(i)
    \/ handleNext
    \/ handleBack

LiveSpec == RunInit /\ [][LiveNext]_vars /\ TimersFire

\* The generator over the whole range of its inputs: every Region, every
\* target, the draws at their ends and in between; the runs only.
ZoneInit == AnalysisInit(Regions)

ZoneNext ==
    \/ runAnalysis
    \/ \E i \in 1..Len(runs) : runTick(i)
    \/ \E i \in 1..Len(runs), d \in AllDraws : runFinishWith(i, d)

ZoneSpec == ZoneInit /\ [][ZoneNext]_vars

----------------------------------------------------------------------------
\* Claims about the wizard's navigation

\* the completion predicates as the specification states them
StepComplete(step) ==
    CASE step = 1 -> selectedRegion # None /\ regionName # ""
      [] step = 2 -> terrainData # None
      [] step = 3 -> scenario # None
      [] step = 4 -> scenario # None
      [] OTHER -> FALSE

\* C1: next() moves from step k to k+1 only if the completion predicate of step
\* k holds (Region and name in 1, TerrainRecord in 2, Scenario in 3 and 4); in
\* every other case it leaves the step unchanged; it never moves past step 5.
C1_NextOnlyWhenComplete ==
    [][ handleNext =>
          /\ currentStep' = IF currentStep < 5 /\ StepComplete(currentStep)
                            THEN currentStep + 1 ELSE currentStep
          /\ currentStep' <= 5 ]_vars

\* a fresh session that next() has taken through all four predicates
C1_Witness == WizardOpen /\ selectedProject = None /\ currentStep = 5

\* C2 (as stated): save() ends the wizard session only when create reported
\* success; when create fails the wizard stays open and keeps the Scenario it
\* tried to save. Here: when a create ends in failure, the wizard is open and
\* holds the Scenario of that request.
C2_FailedSaveKeepsSession ==
    [][ \A i \in 1..Len(net) : \A outcome \in {"http", "network"} :
          createResponds(i, outcome) =>
             /\ WizardOpen'
             /\ scenario' # None
             /\ JSONStringify([scenario'[1] EXCEPT !.timestamp = toISOString(@)])
                   = net[i].body[1].scenario ]_vars

RECURSIVE BackTimes(_, _)
\* the step after j calls of back() from `step`
BackTimes(step, j) == IF j = 0 THEN step ELSE BackTimes(BackStep(step), j - 1)

RECURSIVE NextTimes(_, _)
\* the step after j calls of next() from `step`, the wizard's data unchanged
NextTimes(step, j) == IF j = 0 THEN step ELSE NextTimes(NextStep(step), j - 1)

\* C3 (as stated): from any reachable state with the wizard in step k, j calls
\* of back() followed by j calls of next() (1 <= j < k), with no other action in
\* between, return the wizard to step k; in fresh and in loaded sessions.
C3_BackThenNextReturns ==
    WizardOpen =>
       \A j \in 1..(currentStep - 1) :
          NextTimes(BackTimes(currentStep, j), j) = currentStep

\* C4: a session opened on an existing Project starts in step 5 with the
\* Region, the region name and the Scenario of that Project; no completion
\* predicate is evaluated on the way (the session holds no TerrainRecord, so
\* the predicate of step 2 does not hold in it).
C4_LoadedStartsAtCollaborate ==
    [][ (~WizardOpen /\ WizardOpen' /\ selectedProject' # None) =>
          /\ currentStep' = 5
          /\ selectedRegion' = Some(selectedProject'[1].scenario.region)
          /\ regionName' = selectedProject'[1].region
          /\ scenario' = Some(selectedProject'[1].scenario)
          /\ terrainData' = None ]_vars

\* a session just opened on a Project of the list
C4_Witness ==
    /\ WizardOpen /\ selectedProject # None /\ currentStep = 5
    /\ scenario = Some(selectedProject[1].scenario)
    /\ regionName = selectedProject[1].region

\* C5: the wizard issues a create only in step 5 and only with a Scenario, and
\* hands it the current Scenario and the current region name.
C5_SaveOnlyAtCollaborate ==
    [][ PendingCreates' > PendingCreates =>
          /\ currentStep = 5
          /\ scenario # None
          /\ Len(net') = Len(net) + 1
          /\ net'[Len(net')].kind = "create"
          /\ net'[Len(net')].body[1].region = regionName
          /\ net'[Len(net')].body[1].name = scenario[1].name
          /\ net'[Len(net')].body[1].status = scenario[1].status
          /\ net'[Len(net')].body[1].scenario
                = JSONStringify([scenario[1] EXCEPT !.timestamp = toISOString(@)]) ]_vars

\* a fresh session was saved: its create is in flight, with the name typed in step 1
C5_Witness ==
    /\ ~WizardOpen
    /\ \E i \in 1..Len(net) : net[i].kind = "create" /\ net[i].body[1].region = "Bayreuth"
                              /\ net[i].body[1].scenario.region = <<"p", "q", "r", "s">>

----------------------------------------------------------------------------
\* Claims about the Scenario the wizard holds

\* the wizard holds a Scenario before and after the step
HoldsScenario == WizardOpen /\ WizardOpen' /\ scenario # None /\ scenario' # None

\* the step is the completion of an analysis run
RunCompletes == \E i \in 1..Len(runs) : runFinish(i)

C7_CommentsAppendOnly ==
    [][ /\ HoldsScenario => IsPrefix(scenario[1].comments, scenario'[1].comments)
        /\ handleAddComment =>
             IF newComment \in {"", " "}
             THEN scenario' = scenario
             ELSE /\ Len(scenario'[1].comments) = Len(scenario[1].comments) + 1
                  /\ scenario'[1].comments[Len(scenario'[1].comments)].text = newComment
                  /\ scenario'[1] = [scenario[1] EXCEPT !.comments = scenario'[1].comments] ]_vars

\* C7 (amended): as stated, except that the completion of an analysis run
\* replaces the held Scenario by a newly generated one without comments.
C7_CommentsAppendOnlyUntilRerun ==
    [][ /\ HoldsScenario =>
             \/ IsPrefix(scenario[1].comments, scenario'[1].comments)
             \/ RunCompletes /\ scenario'[1].comments = <<>>
        /\ handleAddComment =>
             IF newComment \in {"", " "}
             THEN scenario' = scenario
             ELSE /\ Len(scenario'[1].comments) = Len(scenario[1].comments) + 1
                  /\ scenario'[1].comments[Len(scenario'[1].comments)].text = newComment
                  /\ scenario'[1] = [scenario[1] EXCEPT !.comments = scenario'[1].comments] ]_vars

\* a comment was added to a Scenario that already had one
C7_Witness ==
    /\ WizardOpen /\ scenario # None
    /\ Len(scenario[1].comments) = 2
    /\ newComment = ""

----------------------------------------------------------------------------
\* Claims about the Region Selector

\* C8: finish with fewer than 3 points changes nothing (no Region is emitted,
\* drawing goes on, the points stay); finish with 3 or more emits exactly the
\* accumulated points, in the order they were clicked, leaves drawing mode and
\* clears the points.
C8_FinishNeedsThreePoints ==
    [][ handleFinishDrawing =>
          IF Len(drawingPoints) < 3
          THEN /\ UNCHANGED <<selectedRegion, terrainData>>
               /\ isDrawing' /\ drawingPoints' = drawingPoints
          ELSE /\ selectedRegion' = Some(drawingPoints)
               /\ \E path \in ClickPaths : IsPrefix(selectedRegion'[1], path)
               /\ ~isDrawing'
               /\ drawingPoints' = <<>> ]_vars

\* a polygon of four points was drawn and confirmed in a fresh session
C8_Witness ==
    /\ WizardOpen /\ selectedProject = None /\ ~isDrawing
    /\ selectedRegion = Some(<<"p", "q", "r", "s">>)
    /\ terrainData # None

\* C9: cancel while drawing discards the accumulated points and leaves drawing
\* mode, and emits nothing: the Region and the TerrainRecord stay as they were.
C9_CancelEmitsNothing ==
    [][ handleCancelDrawing =>
          /\ ~isDrawing'
          /\ drawingPoints' = <<>>
          /\ UNCHANGED <<selectedRegion, terrainData, regionName, scenario, currentStep>> ]_vars

\* a second polygon, complete, is being drawn over a confirmed Region: the
\* state in which cancel has something to discard and something to keep
C9_Witness ==
    /\ isDrawing /\ Len(drawingPoints) >= 3
    /\ selectedRegion # None /\ selectedRegion[1] # drawingPoints
    /\ terrainData # None

\* C10 (as stated): within one session the Region, once confirmed, and the
\* TerrainRecord, once created, are never modified by a later wizard action.
C10_RegionWriteOnce ==
    [][ (WizardOpen /\ WizardOpen') =>
          /\ selectedRegion # None => selectedRegion' = selectedRegion
          /\ terrainData # None => terrainData' = terrainData ]_vars

\* C10 (amended): within one session the Region and the TerrainRecord change
\* only when finish confirms a polygon in step 1, which sets both together;
\* no other wizard action modifies either.
C10_RegionReplacedOnlyByFinish ==
    [][ (WizardOpen /\ WizardOpen'
            /\ <<selectedRegion, terrainData>>' # <<selectedRegion, terrainData>>) =>
          /\ currentStep = 1 /\ isDrawing /\ Len(drawingPoints) >= 3
          /\ selectedRegion' = Some(drawingPoints)
          /\ terrainData' # None ]_vars

\* a second Region was confirmed after a Scenario had been generated for the first
C10_Witness ==
    /\ WizardOpen /\ selectedProject = None
    /\ scenario # None /\ selectedRegion # None /\ terrainData # None
    /\ scenario[1].region # selectedRegion[1]

----------------------------------------------------------------------------
\* Claims about the Project Store calls

\* a Project Store call of the client ends in failure in this step
CallFails ==
    \E i \in 1..Len(net) : \E outcome \in {"http", "network"} :
       \/ listResponds(i, outcome)
       \/ createResponds(i, outcome)
       \/ updateResponds(i, outcome)
       \/ deleteResponds(i, outcome)

\* C11 (as stated): every Project Store call that fails, at the network level
\* or with a non-OK response, raises an error notification, and no success
\* notification is raised for it.
C11_FailedCallNotified ==
    [][ CallFails => (toast' # None /\ toast'[1].kind = "error") ]_vars

----------------------------------------------------------------------------
\* Claims about the mock generator and the analysis run

\* C12: for every green-space target t in 10..50 the generator returns exactly
\* max(3, floor(t/8) + 1) zones, with the ids zone-0 .. zone-(n-1) in index order.
C12_ZoneCount ==
    [][ \A i \in 1..Len(runs) : \A d \in AllDraws :
          runFinishWith(i, d) =>
             LET t == runs[i].target
                 zones == scenario'[1].greenZones
                 n == IF (t \div 8) + 1 > 3 THEN (t \div 8) + 1 ELSE 3
             IN  /\ t \in 10..50
                 /\ Len(zones) = n
                 /\ \A k \in 1..n : zones[k].id = <<"zone", k - 1>> ]_vars

\* a Scenario generated with target 10, where the lower limit of three applies
C12_Witness ==
    /\ scenario # None
    /\ scenario[1].coverage = 10
    /\ Len(scenario[1].greenZones) = 3

\* a wizard action that comes after the generation: next, back, share, comment, approve
LaterAction ==
    \/ handleNext
    \/ handleBack
    \/ viewResultsShare
    \/ \E text \in CommentTexts : setNewComment(text)
    \/ handleAddComment
    \/ handleApprove

\* C13: every Scenario produced by runAnalysis has the coverage of the
\* green-space target its run was started with, whatever zones were generated,
\* and no later wizard action (comment, approve, share, next, back) changes it.
C13_CoverageIsTarget ==
    [][ /\ \A i \in 1..Len(runs) : \A d \in AllDraws :
              runFinishWith(i, d) => scenario'[1].coverage = runs[i].target
        /\ (LaterAction /\ scenario # None) =>
              (scenario' # None /\ scenario'[1].coverage = scenario[1].coverage) ]_vars

\* a Scenario generated with target 50, then commented and approved
C13_Witness ==
    /\ scenario # None
    /\ scenario[1].coverage = 50
    /\ scenario[1].status = "completed"
    /\ Len(scenario[1].comments) = 1

\* C14: with target 25, for any confirmed Region and any outcome of the random
\* draws, every Scenario generated by runAnalysis has exactly 4 GreenZones,
\* coverage 25, sustainabilityScore in 70..99, accessibilityScore in 75..99 and
\* populationServed in 100000..149999.
C14_DefaultTargetScenario ==
    [][ \A i \in 1..Len(runs) : \A d \in AllDraws :
          (runFinishWith(i, d) /\ runs[i].target = 25) =>
             /\ Len(scenario'[1].greenZones) = 4
             /\ scenario'[1].coverage = 25
             /\ scenario'[1].sustainabilityScore \in 70..99
             /\ scenario'[1].accessibilityScore \in 75..99
             /\ scenario'[1].populationServed \in 100000..149999
             /\ scenario'[1].region = runs[i].region ]_vars

\* a Scenario generated with target 25 for the four-point Region, the draws at
\* their upper end
C14_Witness ==
    /\ scenario # None
    /\ scenario[1].coverage = 25
    /\ scenario[1].region = <<"p", "q", "r", "s">>
    /\ scenario[1].sustainabilityScore = 99
    /\ scenario[1].accessibilityScore = 99
    /\ scenario[1].populationServed > 149000

\* C15: approve sets the status of the wizard's Scenario to completed; in a
\* session loaded from a Project it issues exactly one PUT for that Project
\* with the body {status: completed, scenario: the updated Scenario}, in a
\* fresh session it issues no request; it cannot be taken once the status is
\* completed.
C15_ApprovePutsOnce ==
    [][ handleApprove =>
          /\ scenario[1].status # "completed"
          /\ scenario' = Some([scenario[1] EXCEPT !.status = "completed"])
          /\ IF selectedProject # None
             THEN /\ Len(net') = Len(net) + 1
                  /\ SubSeq(net', 1, Len(net)) = net
                  /\ net'[Len(net')].kind = "update"
                  /\ net'[Len(net')].pid = selectedProject[1].id
                  /\ net'[Len(net')].body =
                        Some([status |-> "completed",
                              scenario |-> JSONStringify(scenario'[1])])
             ELSE net' = net ]_vars

\* a session loaded from a draft Project has approved it: the PUT is in flight
C15_Witness ==
    /\ WizardOpen /\ selectedProject # None
    /\ scenario # None /\ scenario[1].status = "completed"
    /\ \E i \in 1..Len(net) : net[i].kind = "update" /\ net[i].pid = selectedProject[1].id

\* C16 (as stated): a Scenario serialized by save and read back by
\* loadProjects is equal to the original: every non-date field as it was, and
\* every Date-like field (the scenario timestamp, each comment's timestamp),
\* which travels as an ISO-8601 string, re-parsed to a date value.
C16_SaveLoadRoundTrip ==
    [][ (handleSave /\ scenario # None) =>
          LET body == net'[Len(net')].body[1]
              stored == StoreCreate(body, nextPid + 1, now)
              loaded == ParseProject(stored)
          IN  /\ loaded.region = regionName
              /\ loaded.scenario = scenario[1] ]_vars

----------------------------------------------------------------------------
\* Claims about sharing

\* a share action of the client is taken in this step
ShareTaken ==
    \/ viewResultsShare
    \/ \E i \in 1..Len(projects) : archiveShare(projects[i])

\* C17 (as stated): every share action writes to the clipboard a JSON object
\* whose fields are exactly name, coverage, sustainability, accessibility and
\* the zone count, and nothing else.
C17_ShareIsReducedSummary ==
    [][ ShareTaken =>
          /\ clipboard' # None
          /\ (DOMAIN clipboard'[1]) \ {"greenZones", "zones"}
                = {"name", "coverage", "sustainability", "accessibility"}
          /\ Cardinality((DOMAIN clipboard'[1]) \cap {"greenZones", "zones"}) = 1 ]_vars

----------------------------------------------------------------------------
\* Claims about concurrent and abandoned runs

\* C18 (as stated): at most one analysis run is in flight for a session in
\* every reachable state, so two runs are never both pending to deliver a
\* Scenario to the same session.
C18_OneRunInFlight == WizardOpen => Len(runs) <= 1

\* C19 (as stated): a run still in progress when the user left step 3 by
\* back() is abandoned: when its last timer fires, it changes neither the
\* wizard's Scenario nor any other wizard state.
C19_AbandonedRunSilent ==
    [][ \A i \in 1..Len(runs) :
          (currentStep < 3 /\ ~runs[i].attached /\ runFinish(i)) =>
             UNCHANGED wizardVars ]_vars

----------------------------------------------------------------------------
\* Claims about the progress of a run

\* the last timer of the run of the mounted StepRunAnalysis fires in this step
Delivers == \E i \in 1..Len(runs) : runs[i].attached /\ runFinish(i)

\* StepRunAnalysis is mounted before and after the step
StaysInRunStep == RunMounted /\ RunMounted' /\ currentStep' = currentStep

\* C20: during one run the progress takes the values 0, 20, 40, 60, 80, 100 in
\* that order, one per timer, never decreasing; the Scenario is delivered to
\* the wizard only when the progress has reached 100, once per run, and the
\* running flag is cleared only with that delivery. If every timer fires,
\* every started run eventually delivers its Scenario (or the wizard has been
\* closed).
C20_ProgressThenDelivery ==
    /\ [][ /\ (~isRunning /\ isRunning') => progress' = 0
           /\ (StaysInRunStep /\ isRunning /\ progress' # progress) =>
                 (progress' = progress + 20 /\ progress' <= 100)
           /\ Delivers =>
                 /\ progress = 80 /\ progress' = 100
                 /\ scenario' # None /\ scenario' # scenario
                 /\ Len(runs') = Len(runs) - 1
                 /\ isRunning /\ ~isRunning'
           /\ (StaysInRunStep /\ isRunning /\ ~isRunning') => Delivers
           /\ (StaysInRunStep /\ isRunning /\ progress' = 100 /\ progress # 100) => Delivers
         ]_vars
    /\ (WizardOpen /\ runs # <<>>) ~> (~WizardOpen \/ runs = <<>>)

\* the run of a fresh session has gone through its five timers and delivered
C20_Witness ==
    /\ RunMounted /\ selectedProject = None
    /\ ~isRunning /\ progress = 100
    /\ scenario # None /\ runs = <<>>

----------------------------------------------------------------------------
\* Claims about the wizard's steps and its data

\* C21: back() moves from step k > 1 to step k - 1 whatever the completion
\* predicates say, and does nothing in step 1; back() and next() leave the
\* Region, the name, the TerrainRecord and the Scenario unchanged.
C21_BackChangesOnlyStep ==
    /\ [](WizardOpen /\ currentStep > 1 =>
              ENABLED (handleBack /\ currentStep' = currentStep - 1))
    /\ [][ /\ handleBack =>
                 /\ currentStep' = IF currentStep > 1 THEN currentStep - 1 ELSE currentStep
                 /\ UNCHANGED <<selectedRegion, regionName, terrainData, scenario>>
           /\ handleNext =>
                 UNCHANGED <<selectedRegion, regionName, terrainData, scenario>> ]_vars

\* a loaded session has gone back to step 1, through step 2 whose predicate
\* does not hold in it
C21_Witness ==
    /\ WizardOpen /\ selectedProject # None
    /\ currentStep = 1
    /\ terrainData = None /\ scenario # None

\* C25: the step is one of 1..5 and next/back change it by at most one; from
\* step 4 on there is a Scenario; in a session not loaded from a Project, from
\* step 2 on there is a Region of at least three points with a non-empty
\* name, and from step 3 on a TerrainRecord.
C25_StepInvariant ==
    /\ [](WizardOpen =>
            /\ currentStep \in 1..5
            /\ currentStep >= 4 => scenario # None
            /\ selectedProject = None /\ currentStep >= 2 =>
                  /\ selectedRegion # None
                  /\ Len(selectedRegion[1]) >= 3
                  /\ regionName # ""
            /\ selectedProject = None /\ currentStep >= 3 => terrainData # None)
    /\ [][ handleNext \/ handleBack =>
              \/ currentStep' = currentStep + 1
              \/ currentStep' = currentStep - 1
              \/ currentStep' = currentStep ]_vars

\* a session that was not loaded from a Project has reached the last step
C25_Witness ==
    /\ WizardOpen /\ selectedProject = None
    /\ currentStep = 5

\* C26 (as stated): whenever the wizard holds a Scenario and a Region, the
\* Scenario's region is the wizard's Region.
C26_ScenarioOfCurrentRegion ==
    WizardOpen /\ scenario # None /\ selectedRegion # None =>
        scenario[1].region = selectedRegion[1]

----------------------------------------------------------------------------
\* Claims about the App shell

\* the wizard is mounted by this step as a fresh session
OpensFresh ==
    /\ WizardOpen'
    /\ selectedProject' = None
    /\ currentStep' = 1
    /\ scenario' = None /\ selectedRegion' = None

\* the wizard is mounted by this step on the Project `project`
OpensOn(project) ==
    /\ WizardOpen'
    /\ selectedProject' = Some(project)
    /\ currentStep' = 5
    /\ scenario' = Some(project.scenario)

\* C27 (as stated): "Start New Project" and the sidebar's "New Analysis" entry
\* open the wizard as a fresh session at step 1 with no Project; viewing a
\* Project from the Dashboard or from the archive opens it at step 5 on that
\* Project.
C27_OpenedOnWhatWasChosen ==
    [][ /\ onStartNewProject => OpensFresh
        /\ ~WizardOpen /\ onNavigate("new-analysis") => OpensFresh
        /\ \A i \in 1..Len(recentProjects) :
              handleViewProject(recentProjects[i]) => OpensOn(recentProjects[i])
        /\ \A i \in 1..Len(projects) :
              archiveViewProject(projects[i]) => OpensOn(projects[i]) ]_vars

\* C28 (as stated): the Projects of the store hold pairwise distinct scenario
\* ids: no session makes a second Project record for a Scenario that has one.
C28_DistinctScenarioIds ==
    \A i, j \in 1..Len(store) :
        i # j => ParseProject(store[i]).scenario.id # ParseProject(store[j]).scenario.id

----------------------------------------------------------------------------
\* Claims about the Region Selector's load effect

\* C22 (as stated): the Region Selector never has both a map and the error
\* state, drawing goes on only with a map, and whenever the selector is loading
\* it eventually leaves the loading state (with a map, or in the error state).
C22_LoadingEnds ==
    /\ [](~(map /\ loadError))
    /\ [](isDrawing => map)
    /\ (SelectorMounted /\ isLoading) ~> ~isLoading

----------------------------------------------------------------------------
\* Claims about ApiClient.request

\* C29 (as stated): request never throws to its caller; what it returns has
\* exactly one of data and error; data is there, with the HTTP status, exactly
\* when the response was OK and its body parsed; a non-OK response gives an
\* error with the HTTP status; a rejected fetch or an unparsable body gives an
\* error with status 0.
C29_RequestResult ==
    response # None =>
        LET f == fetched[1]
            parsed == f.kind = "response" /\ json(f.body) # None
        IN  /\ response[1].thrown = None
            /\ LET r == response[1].value[1]
               IN  /\ (r.data # None) # (r.error # None)
                   /\ (r.data # None) <=> (parsed /\ ok(f.status))
                   /\ r.data # None => r.status = f.status
                   /\ (f.kind = "response" /\ ~ok(f.status)) =>
                          (r.error # None /\ r.status = f.status)
                   /\ (f.kind = "rejected" \/ ~parsed) =>
                          (r.error # None /\ r.status = 0)

----------------------------------------------------------------------------
\* Claims about the zones of the mock generator

C24_SquareZones ==
    [][ \A i \in 1..Len(runs) : \A d \in AllDraws :
          runFinishWith(i, d) =>
             LET zones == scenario'[1].greenZones
                 region == runs[i].region
             IN  \A k \in 1..Len(zones) :
                    LET c == zones[k].coordinates
                        size == CASE zones[k].type = "park" -> 30
                                  [] zones[k].type = "garden" -> 20
                                  [] zones[k].type = "forest" -> 40
                                  [] zones[k].type = "wetland" -> 25
                    IN  /\ Len(c) = 4
                        /\ c[1].lat = c[4].lat /\ c[2].lat = c[3].lat
                        /\ c[1].lng = c[2].lng /\ c[3].lng = c[4].lng
                        /\ c[2].lat - c[1].lat = 2 * size
                        /\ c[3].lng - c[2].lng = 2 * size
                        /\ c[1].lat + c[3].lat =
                              2 * centerLat(MinOf(Lats(region)), MaxOf(Lats(region)),
                                            k - 1, Len(zones))
                        /\ c[1].lng + c[3].lng =
                              2 * centerLng(MinOf(Lngs(region)), MaxOf(Lngs(region)), k - 1)
                        /\ zones[k].area >= 15000 ]_vars

\* a list with a wetland, the smallest area drawn
C24_Witness ==
    /\ scenario # None
    /\ Len(scenario[1].greenZones) >= 4
    /\ scenario[1].greenZones[4].type = "wetland"
    /\ scenario[1].greenZones[4].area = 15000
    /\ scenario[1].greenZones[4].coordinates[3].lat
          - scenario[1].greenZones[4].coordinates[1].lat = 50

\* C30: for every Region and every target in 10..50 the centre of every zone
\* lies in the Region's bounding box: the factors 0.2 + 0.6 * i / n and
\* 0.2 + ((0.7 * i) mod 1), in tenths, stay within 0..10.
C30_CentresInBounds ==
    [][ \A i \in 1..Len(runs) : \A d \in AllDraws :
          runFinishWith(i, d) =>
             LET zones == scenario'[1].greenZones
                 region == runs[i].region
                 n == Len(zones)
             IN  /\ Len(region) >= 3 /\ runs[i].target \in 10..50
                 /\ \A k \in 1..n :
                       LET c == zones[k].coordinates
                       IN  /\ 2 * MinOf(Lats(region)) <= c[1].lat + c[3].lat
                           /\ c[1].lat + c[3].lat <= 2 * MaxOf(Lats(region))
                           /\ 2 * MinOf(Lngs(region)) <= c[1].lng + c[3].lng
                           /\ c[1].lng + c[3].lng <= 2 * MaxOf(Lngs(region))
                           /\ 2 * n + 6 * (k - 1) <= 10 * n
                           /\ 2 + ((7 * (k - 1)) % 10) <= 10 ]_vars

\* a list whose fifth zone has its centre on the eastern bound (factor 1.0)
C30_Witness ==
    /\ scenario # None
    /\ Len(scenario[1].greenZones) >= 5
    /\ scenario[1].greenZones[5].coordinates[1].lng
          + scenario[1].greenZones[5].coordinates[3].lng
          = 2 * MaxOf(Lngs(scenario[1].region))

====
